---- MODULE Spec2Model ----
\* The concurrent ID sweep of src/main.py: main() dispatches batches of
\* MAX_CONCURRENT fetch_artist coroutines, gathers them, appends one line per
\* collected record to artists.jsonl and stops after enough all-empty batches.
EXTENDS Integers, Sequences, FiniteSets, TLC

\* ---------------------------------------------------------------- sizes
\* The program sets MAX_CONCURRENT = 100 and CONSECUTIVE_FAIL_LIMIT = 100
\* (src/main.py:7-8). The model keeps both as parameters and runs them at a
\* small size, with the limit above the batch size so that the counter takes
\* non-zero values between batches.
MAX_CONCURRENT == 2
CONSECUTIVE_FAIL_LIMIT == 4
\* How many IDs from START_ID upwards exist on the server (can answer 200).
NumLive == 4

START_ID == 4463796
MAX_RETRIES == 3
InitialRetryDelay == 5

VARIABLES
    pc,                    \* where main() is: "loop", "gather", "process", "done", "crashed"
    artist_id,             \* the cursor (main.py:46)
    consecutive_failures,  \* main.py:47
    total_collected,       \* main.py:48
    batch_ids,             \* main.py:52
    tasks,                 \* the coroutines of the batch (main.py:55), by position
    finished,              \* positions of the tasks in the order they completed
    batch_results,         \* what gather returned (main.py:56)
    sink,                  \* the lines of artists.jsonl, in file order
    requested,             \* history: every ID a fetch was started for, in order
    successes,             \* history: the IDs whose fetch returned a record
    raised                 \* what propagated out of main(): "" while none did

vars == <<pc, artist_id, consecutive_failures, total_collected, batch_ids, tasks,
          finished, batch_results, sink, requested, successes, raised>>

\* ---------------------------------------------------------------- values
None == [none |-> TRUE]

\* Python truthiness of a fetch result: None is falsy, a non-empty dict truthy.
Truthy(r) == "id" \in DOMAIN r

LiveIds == START_ID .. (START_ID + NumLive - 1)

\* An HTTP exchange as fetch_artist sees it. fault: session.get raised (timeout,
\* connection error). headers: a set of <<name, value>> pairs.
Reply(status, headers, body) ==
    [fault |-> FALSE, status |-> status, headers |-> headers, body |-> body]

TransportFault == [fault |-> TRUE, status |-> 0, headers |-> {}, body |-> ""]

RetryAfter(v) == {<<"Retry-After", v>>}

Responses(aid) ==
    (IF aid \in LiveIds THEN {Reply(200, {}, "json")} ELSE {})
    \cup { Reply(200, {}, "not json"),
           Reply(404, {}, ""),
           Reply(500, {}, ""),
           Reply(429, {}, ""),
           Reply(429, RetryAfter("2"), ""),
           Reply(429, RetryAfter("7"), ""),
           Reply(429, RetryAfter("soon"), ""),
           TransportFault }

\* resp.headers.get(name, default): the header's (string) value, else default.
HasHeader(headers, name) == \E h \in headers : h[1] = name
HeaderValue(headers, name) == (CHOOSE h \in headers : h[1] = name)[2]

\* int(s) on a header string: a decimal numeral parses, anything else raises
\* ValueError.
IntParses(s) == s \in {"2", "7"}
IntOf(s) == CASE s = "2" -> 2 [] s = "7" -> 7 [] OTHER -> 0

\* resp.json(): decodes the body or raises.
JsonDecodes(body) == body = "json"

\* The names bound when line 28 of fetch_artist runs: its parameters and
\* locals, and the module's globals. The loop variable is `att`.
fetch_artist_names ==
    {"session", "artist_id", "url", "retry_delay", "att", "resp", "wait"}
    \cup {"asyncio", "aiohttp", "json", "Optional", "BASE_URL", "MAX_CONCURRENT",
          "CONSECUTIVE_FAIL_LIMIT", "START_ID", "MAX_RETRIES", "results", "lock",
          "fetch_artist", "main"}

NameBound(n) == n \in fetch_artist_names

\* ---------------------------------------------------------------- fetch_artist
\* One coroutine of the batch. att is the loop index of line 20, statuses the
\* status of every response it got (0 for a transport fault), slept the
\* durations it passed to asyncio.sleep, log what it last printed.
NewTask(aid) ==
    [aid |-> aid, st |-> "get", att |-> 0, retry_delay |-> InitialRetryDelay,
     result |-> None, log |-> "", statuses |-> <<>>, slept |-> <<>>]

return_(t, value, log) == [t EXCEPT !.st = "returned", !.result = value, !.log = log]

\* An except clause that lets the exception out of the coroutine.
except_nothing(t) == [t EXCEPT !.st = "raised", !.log = "Error"]

\* Lines 36-38: any Exception raised in the try block is printed and the
\* coroutine returns None.
except_Exception(t) == return_(t, None, "Error")

\* Lines 23-25.
on_200(t, resp) ==
    IF JsonDecodes(resp.body)
    THEN return_(t, [id |-> t.aid, data |-> resp.body], "")
    ELSE except_Exception(t)

\* Lines 26-30. Line 27 raises ValueError on a header that is no numeral. Line
\* 28 formats `attempt`, which raises NameError unless that name is bound.
\* Past that: sleep, double the delay, and go round the loop of line 20; when
\* the loop is exhausted the function ends without a return statement.
on_429(t, resp) ==
    LET given == HasHeader(resp.headers, "Retry-After")
        value == HeaderValue(resp.headers, "Retry-After")
    IN  IF given /\ ~IntParses(value) THEN except_Exception(t)
        ELSE IF ~NameBound("attempt") THEN except_Exception(t)
        ELSE LET wait == IF given THEN IntOf(value) ELSE t.retry_delay
                 next == [t EXCEPT !.slept = Append(@, wait),
                                   !.retry_delay = @ * 2,
                                   !.att = @ + 1,
                                   !.log = "Rate limited"]
             IN  IF next.att < MAX_RETRIES THEN next
                 ELSE return_(next, None, "Rate limited")

\* A 404 handler that goes round the loop again instead of returning.
on_404_retrying(t) ==
    LET next == [t EXCEPT !.att = @ + 1]
    IN  IF next.att < MAX_RETRIES THEN next ELSE return_(next, None, "")

\* Lines 31-32.
on_404(t) == return_(t, None, "")

\* Lines 33-35.
on_other_status(t) == return_(t, None, "Unexpected status")

\* One iteration of the loop of line 20: the request of line 22 got `resp`.
fetch_artist(t, resp) ==
    LET seen == [t EXCEPT !.statuses = Append(@, resp.status)]
    IN  IF resp.fault THEN except_Exception(seen)
        ELSE IF resp.status = 200 THEN on_200(seen, resp)
        ELSE IF resp.status = 429 THEN on_429(seen, resp)
        ELSE IF resp.status = 404 THEN on_404(seen)
        ELSE on_other_status(seen)

\* ---------------------------------------------------------------- main
\* A cursor that advances only past the IDs that can still be live.
next_cursor_short(a) == a + MAX_CONCURRENT - 1

\* Line 53.
next_cursor(a) == a + MAX_CONCURRENT

\* Line 52: list(range(artist_id, artist_id + MAX_CONCURRENT)).
batch_range(a) == [k \in 1 .. MAX_CONCURRENT |-> a + k - 1]

\* A loop test that runs one batch too many.
keep_running_inclusive(cf) == cf <= CONSECUTIVE_FAIL_LIMIT

\* Line 51: the loop test.
keep_running(cf) == cf < CONSECUTIVE_FAIL_LIMIT

\* A wait that returns as soon as one task is done.
gather_ready_first(ts) == \E i \in DOMAIN ts : ts[i].st # "get"

\* Line 56: await asyncio.gather(*tasks) resumes when every task has returned,
\* or as soon as one has raised.
gather_ready(ts) ==
    \/ \A i \in DOMAIN ts : ts[i].st # "get"
    \/ \E i \in DOMAIN ts : ts[i].st = "raised"

\* Line 56: gather returns the results in the order of the awaitables.
gather(ts) == [k \in DOMAIN ts |-> ts[k].result]

\* An all-empty batch counted as one failure.
count_empty_batch_once(cf) == cf + 1

\* Lines 68-69.
count_empty_batch(cf) == cf + MAX_CONCURRENT

\* The append sink: f.write / f.flush of lines 61-62 can raise OSError. at: the
\* position in the batch whose append fails (0: none does). After a failed
\* flush the line is in the file object's buffer and closing the file may or
\* may not get it out (landed).
NoSinkFault == [at |-> 0, op |-> "none", landed |-> FALSE]
SinkFaults ==
    {NoSinkFault}
    \cup [at : 1 .. MAX_CONCURRENT, op : {"write"}, landed : {FALSE}]
    \cup [at : 1 .. MAX_CONCURRENT, op : {"flush"}, landed : BOOLEAN]

\* Lines 58-66: the loop over zip(batch_ids, batch_results), from position i,
\* on the locals s. Stops where an append raises.
RECURSIVE for_results(_, _, _, _, _)
for_results(i, ids, res, s, fault) ==
    IF i > Len(res) \/ i > Len(ids) THEN s
    ELSE IF ~Truthy(res[i]) THEN for_results(i + 1, ids, res, s, fault)
    ELSE LET line == [id |-> ids[i], data |-> res[i]]
         IN  IF fault.at = i /\ fault.op = "write"
             THEN [s EXCEPT !.raised = "OSError"]
             ELSE IF fault.at = i /\ fault.op = "flush"
             THEN [s EXCEPT !.raised = "OSError",
                            !.sink = IF fault.landed THEN Append(@, line) ELSE @]
             ELSE for_results(i + 1, ids, res,
                              [s EXCEPT !.sink = Append(@, line),
                                        !.total_collected = @ + 1,
                                        !.any_success = TRUE,
                                        !.consecutive_failures = 0],
                              fault)

\* ---------------------------------------------------------------- actions
Init ==
    /\ pc = IF keep_running(0) THEN "loop" ELSE "done"
    /\ artist_id = START_ID
    /\ consecutive_failures = 0
    /\ total_collected = 0
    /\ batch_ids = <<>>
    /\ tasks = <<>>
    /\ finished = <<>>
    /\ batch_results = <<>>
    /\ sink = <<>>
    /\ requested = <<>>
    /\ successes = {}
    /\ raised = ""

\* Lines 52-56: build the batch, advance the cursor, start one coroutine per ID
\* and await them.
Dispatch ==
    /\ pc = "loop"
    /\ batch_ids' = batch_range(artist_id)
    /\ artist_id' = next_cursor(artist_id)
    /\ tasks' = [k \in DOMAIN batch_ids' |-> NewTask(batch_ids'[k])]
    /\ finished' = <<>>
    /\ requested' = requested \o batch_ids'
    /\ pc' = "gather"
    /\ UNCHANGED <<consecutive_failures, total_collected, batch_results, sink,
                   successes, raised>>

\* Lines 20-38: task i's pending request resolves and the task runs to its next
\* await or to its end.
Attempt(i) ==
    /\ pc = "gather"
    /\ i \in DOMAIN tasks
    /\ tasks[i].st = "get"
    /\ \E resp \in Responses(tasks[i].aid) :
          LET t == fetch_artist(tasks[i], resp)
          IN  /\ tasks' = [tasks EXCEPT ![i] = t]
              /\ finished' = IF t.st # "get" THEN Append(finished, i) ELSE finished
              /\ successes' = IF t.st = "returned" /\ Truthy(t.result)
                              THEN successes \cup {t.aid} ELSE successes
    /\ UNCHANGED <<pc, artist_id, consecutive_failures, total_collected, batch_ids,
                   batch_results, sink, requested, raised>>

\* Line 56: the await of gather resumes main().
GatherReturn ==
    /\ pc = "gather"
    /\ gather_ready(tasks)
    /\ IF \E i \in DOMAIN tasks : tasks[i].st = "raised"
       THEN /\ pc' = "crashed"
            /\ raised' = "fetch"
            /\ UNCHANGED batch_results
       ELSE /\ pc' = "process"
            /\ batch_results' = gather(tasks)
            /\ UNCHANGED raised
    /\ UNCHANGED <<artist_id, consecutive_failures, total_collected, batch_ids, tasks,
                   finished, sink, requested, successes>>

\* Lines 58-71 and the loop test of line 51 (then line 73): no await in
\* between, so main() runs them in one step.
ProcessBatch ==
    /\ pc = "process"
    /\ \E fault \in SinkFaults :
          LET s == for_results(1, batch_ids, batch_results,
                               [sink |-> sink, total_collected |-> total_collected,
                                any_success |-> FALSE,
                                consecutive_failures |-> consecutive_failures,
                                raised |-> ""],
                               fault)
              cf == IF s.any_success THEN s.consecutive_failures
                    ELSE count_empty_batch(s.consecutive_failures)
          IN  /\ sink' = s.sink
              /\ total_collected' = s.total_collected
              /\ IF s.raised # ""
                 THEN /\ pc' = "crashed"
                      /\ raised' = "sink"
                      /\ consecutive_failures' = s.consecutive_failures
                 ELSE /\ pc' = IF keep_running(cf) THEN "loop" ELSE "done"
                      /\ consecutive_failures' = cf
                      /\ UNCHANGED raised
    /\ UNCHANGED <<artist_id, batch_ids, tasks, finished, batch_results, requested,
                   successes>>

Next ==
    \/ Dispatch
    \/ \E i \in 1 .. MAX_CONCURRENT : Attempt(i)
    \/ GatherReturn
    \/ ProcessBatch

Spec == Init /\ [][Next]_vars

\* asyncio runs every ready coroutine, and every request resolves: each enabled
\* step is eventually taken.
FairSpec == Spec /\ WF_vars(Next)

\* ---------------------------------------------------------------- properties
Positions == 1 .. Len(tasks)
Last(q) == q[Len(q)]
SinkIds == {sink[k].id : k \in 1 .. Len(sink)}
BatchHadSuccess == \E k \in Positions : Truthy(tasks[k].result)

\* The counter's value when the loop test first fails: the first multiple of
\* the batch size that reaches the limit.
StopCount ==
    MAX_CONCURRENT * ((CONSECUTIVE_FAIL_LIMIT + MAX_CONCURRENT - 1) \div MAX_CONCURRENT)

\* C1: the sweep is Stopped exactly when consecutive_failures has reached
\* CONSECUTIVE_FAIL_LIMIT; it stops at the first batch that takes the counter
\* there (so a run of all-empty batches from the start stops after
\* StopCount / MAX_CONCURRENT batches with nothing collected); and once
\* Stopped, main() takes no further step: no batch is dispatched again.
C1_StoppedIffLimitReached ==
    /\ [](/\ (pc = "done") <=> (consecutive_failures >= CONSECUTIVE_FAIL_LIMIT)
          /\ pc = "done" => consecutive_failures = StopCount
          /\ pc = "done" /\ Len(requested) = StopCount => total_collected = 0)
    /\ [][pc = "done" => FALSE]_vars

\* C1 witness: every ID of every batch answered 404 and the sweep has stopped
\* after the batches that took the counter to the limit, with nothing collected.
C1_Witness ==
    /\ pc = "done"
    /\ Len(requested) = StopCount
    /\ total_collected = 0
    /\ sink = <<>>
    /\ \A k \in Positions : tasks[k].statuses = <<404>>

\* C2: a batch that main() finishes processing leaves consecutive_failures at
\* its prior value plus MAX_CONCURRENT when no fetch of the batch returned a
\* record, and at exactly 0 when at least one did.
C2_CounterUpdate ==
    [][pc = "process" /\ pc' \in {"loop", "done"} =>
          consecutive_failures' = IF BatchHadSuccess THEN 0
                                  ELSE consecutive_failures + MAX_CONCURRENT]_vars

\* C2 witness: the first batch was all-empty (the counter was MAX_CONCURRENT),
\* the second had its only record at its last position, and the counter is 0.
C2_Witness ==
    /\ pc = "loop"
    /\ Len(requested) = 2 * MAX_CONCURRENT
    /\ consecutive_failures = 0
    /\ SinkIds = {START_ID + 2 * MAX_CONCURRENT - 1}
    /\ ~Truthy(batch_results[1])

\* C3: the cursor starts at START_ID and moves by MAX_CONCURRENT per batch: the
\* IDs requested so far are exactly START_ID .. artist_id - 1, each once, in
\* increasing order, and the current batch is the last MAX_CONCURRENT of them.
C3_CursorContiguous ==
    /\ artist_id = START_ID + Len(requested)
    /\ Len(requested) % MAX_CONCURRENT = 0
    /\ \A k \in 1 .. Len(requested) : requested[k] = START_ID + k - 1
    /\ \A k \in 1 .. Len(batch_ids) :
          batch_ids[k] = artist_id - MAX_CONCURRENT + k - 1

\* C3 witness: three batches have been dispatched, after one batch with a
\* record and one without.
C3_Witness ==
    /\ Len(requested) = 3 * MAX_CONCURRENT
    /\ consecutive_failures = MAX_CONCURRENT
    /\ total_collected > 0

\* C4: a task that got 429 on an attempt before the last one waits and makes
\* another attempt: it only gives up on rate limiting after MAX_RETRIES
\* attempts, having slept once per 429.
C4_RateLimitedIsRetried ==
    \A k \in Positions :
        tasks[k].st = "returned" /\ Last(tasks[k].statuses) = 429 =>
            /\ Len(tasks[k].statuses) = MAX_RETRIES
            /\ Len(tasks[k].slept) = MAX_RETRIES

\* C5: no outcome of an attempt makes fetch_artist raise: every task ends by
\* returning, nothing a fetch raised ever leaves main(), and when the await of
\* gather resumes main() it goes on to process the batch.
C5_FetchNeverRaises ==
    /\ [](/\ \A k \in Positions : tasks[k].st # "raised"
          /\ raised # "fetch")
    /\ [][pc = "gather" /\ pc' # "gather" => pc' = "process"]_vars

\* C5 witness: a batch whose first fetch hit a transport fault and whose last
\* was rate limited has been processed and counted as an empty batch.
C5_Witness ==
    /\ pc = "loop"
    /\ Len(tasks) >= 1
    /\ tasks[1].statuses = <<0>>
    /\ Last(tasks[Len(tasks)].statuses) = 429
    /\ \A k \in Positions : tasks[k].st = "returned"
    /\ consecutive_failures = MAX_CONCURRENT

\* C6: only a 429 is ever followed by another attempt: any other response is
\* the task's last one and ends it at once. A 404 ends it with no record and
\* nothing logged; another status or a transport fault ends it with no record
\* and the failure logged.
C6_RetryOnlyAfter429 ==
    \A k \in Positions :
        LET t == tasks[k]
        IN  /\ \A n \in 1 .. Len(t.statuses) :
                  t.statuses[n] # 429 => n = Len(t.statuses) /\ t.st = "returned"
            /\ \A n \in 1 .. Len(t.statuses) - 1 : t.statuses[n] = 429
            /\ t.statuses # <<>> /\ Last(t.statuses) = 404 =>
                  t.result = None /\ t.log = ""
            /\ t.statuses # <<>> /\ Last(t.statuses) \in {0, 500} =>
                  t.result = None /\ t.log \in {"Error", "Unexpected status"}

\* C6 witness: one fetch of the batch ended on a 404 and another on a 500, each
\* after a single request.
C6_Witness ==
    /\ Len(tasks) >= 2
    /\ tasks[1].statuses = <<404>> /\ tasks[1].st = "returned"
    /\ tasks[2].statuses = <<500>> /\ tasks[2].st = "returned"

\* C7: whenever main() is not in the middle of a batch, the IDs written to the
\* sink are exactly the IDs whose fetch returned a record, each written once,
\* and total_collected is the number of lines written.
C7_SinkMatchesSuccesses ==
    /\ SinkIds \subseteq successes
    /\ \A m, n \in 1 .. Len(sink) : sink[m].id = sink[n].id => m = n
    /\ pc \in {"loop", "done", "crashed"} =>
          /\ SinkIds = successes
          /\ total_collected = Len(sink)

\* C8: main() touches the sink, the counters, the cursor and the batch result
\* only when every task of the current batch has returned; the batch result
\* then has one entry per ID of the batch, entry k being what the task for
\* batch_ids[k] returned.
C8_BatchIsBarrier ==
    /\ [][(\/ sink' # sink
           \/ consecutive_failures' # consecutive_failures
           \/ total_collected' # total_collected
           \/ artist_id' # artist_id
           \/ batch_results' # batch_results)
          => \A k \in Positions : tasks[k].st = "returned"]_vars
    /\ [](pc = "process" =>
             /\ Len(batch_results) = Len(batch_ids)
             /\ Len(batch_results) = MAX_CONCURRENT
             /\ \A k \in 1 .. Len(batch_ids) :
                   /\ tasks[k].aid = batch_ids[k]
                   /\ batch_results[k] = tasks[k].result
                   /\ Truthy(batch_results[k]) => batch_results[k].id = batch_ids[k])

\* C8 witness: the tasks finished in the reverse of their order in the batch,
\* the first with a record and the last without, and gather has returned.
C8_Witness ==
    /\ pc = "process"
    /\ finished = [k \in 1 .. MAX_CONCURRENT |-> MAX_CONCURRENT + 1 - k]
    /\ Truthy(batch_results[1])
    /\ ~Truthy(batch_results[MAX_CONCURRENT])

\* C9: a failed append never ends the sweep: nothing the sink raised leaves
\* main().
C9_SinkFailureNonFatal == raised # "sink"

\* C10: every fetch ends within MAX_RETRIES requests, every batch that is being
\* awaited completes, and the sweep eventually reaches Stopped.
C10_SweepTerminates ==
    /\ [](\A k \in Positions : Len(tasks[k].statuses) <= MAX_RETRIES)
    /\ (pc = "gather") ~> (pc # "gather")
    /\ <>(pc = "done")

====
